---- MODULE Spec2Model ----
(***************************************************************************)
(* Instruction execution and approval workflow of the orchestrator:        *)
(* ApprovalGate (approval/gate.ts), SessionManager task tracking           *)
(* (class SessionManager), ClaudeCodeSession (claude-code/session.ts) and  *)
(* CodexSession (codex/session.ts).                                        *)
(*                                                                         *)
(* One action is one macrotask of the Node event loop: the handler that    *)
(* the runtime calls together with every promise continuation (microtask)  *)
(* it makes runnable, since microtasks run before the next macrotask.      *)
(***************************************************************************)
EXTENDS Integers, Sequences, FiniteSets, TLC

\* ---------------------------------------------------------------- bounds
MaxInstr == 2        \* instructions accepted in one behaviour
MaxApprovals == 3    \* approval identifiers generated in one behaviour
MaxDetect == 2       \* detections in one response

Users == {"u1", "u2"}      \* user identifiers
Agents == {"claude", "codex"}
ApprovalIds == 1..MaxApprovals
Execs == 1..MaxInstr

\* Exit codes the close event can carry: 0, non-zero, null (ended by a
\* signal) and the negative errno of a failed spawn.
ExitCodes == {"0", "1", "null"}
SpawnErrno == "-2"

\* ------------------------------------------------------------ truncation
\* truncationPatterns, in table order; a text is modelled by the set of
\* patterns it matches.
truncationPatterns == <<"truncated", "max-context", "stop_reason-max_tokens", "max_tokens">>

\* Sample texts: no marker, "response truncated", and a record carrying
\* "stop_reason":"max_tokens" (which matches patterns 3 and 4).
TextSamples == {{}, {1}, {3, 4}}

TruncMessage(p) == truncationPatterns[p]

\* ------------------------------------------------------------- variables
VARIABLES
    agent,               \* which session class runs: ClaudeCodeSession or CodexSession
    isProcessing,        \* session.isProcessing
    currentProcess,      \* session.currentProcess: 0 is null, else the execution that spawned it
    currentTask,         \* SessionManager.state.currentTask: 0 is undefined, else the task index
    taskStatus,          \* status of every Task object created so far
    exec,                \* per accepted instruction: its subprocess and its promise chain
    nInstr,              \* instructions accepted so far
    conversationHistory, \* roles of the entries of session.conversationHistory
    repoContext,         \* SessionManager.state.currentOrg/currentRepo/currentBranch
    pendingApprovals,    \* keys of ApprovalGate.pendingApprovals
    approval,            \* per approval id: requester and the execution awaiting it
    timeoutId,           \* per approval id: state of its setTimeout handle
    resolveCalls,        \* per approval id: how often pending.resolve was invoked
    settled,             \* per approval id: value the promise settled to
    nextApprovalId,      \* next identifier uuidv4 hands out
    timedOutNotes,       \* per approval id: timed-out notifications emitted
    responses,           \* per approval id: handleResponse calls that returned true
    last,                \* the handler that ran last: its argument, result and emitted events
    input,               \* the bytes the subprocess writes to stdout during one execution
    pos,                 \* how many of them the 'data' events have delivered
    reader,              \* the locals of executeWithClaudeCodeCLI that read the output
    response,            \* the lines of a response text given to detectInResponse
    detections,          \* what detectInResponse returned for it
    instruction,         \* the words of an instruction given to parseRepoContext
    parsed,              \* the context parseRepoContext returned for it
    http,                \* what the POST /instruction handler did for the last request
    task,                \* an instruction text given to extractTaskDescription
    description,         \* the description it returned
    summary              \* what summarizeResponse returned for the response

vars == <<agent, isProcessing, currentProcess, currentTask, taskStatus, exec, nInstr,
          conversationHistory, repoContext, pendingApprovals, approval, timeoutId,
          resolveCalls, settled, nextApprovalId, timedOutNotes, responses, last,
          input, pos, reader, response, detections, instruction, parsed, http, task,
          description, summary>>

\* The variables of the parts checked on their own.
parserVars == <<instruction, parsed>>

textVars == <<task, description, summary>>

\* The state as one record, so that a handler is a function from state to state.
Cur ==
    [agent |-> agent, isProcessing |-> isProcessing, currentProcess |-> currentProcess,
     currentTask |-> currentTask, taskStatus |-> taskStatus, exec |-> exec, nInstr |-> nInstr,
     conversationHistory |-> conversationHistory, repoContext |-> repoContext,
     pendingApprovals |-> pendingApprovals, approval |-> approval, timeoutId |-> timeoutId,
     resolveCalls |-> resolveCalls, settled |-> settled, nextApprovalId |-> nextApprovalId,
     timedOutNotes |-> timedOutNotes, responses |-> responses, last |-> last,
     overflow |-> FALSE]

\* The session and gate variables after a handler that ends in state s.
SetSession(s) ==
    /\ ~s.overflow
    /\ agent' = s.agent
    /\ isProcessing' = s.isProcessing
    /\ currentProcess' = s.currentProcess
    /\ currentTask' = s.currentTask
    /\ taskStatus' = s.taskStatus
    /\ exec' = s.exec
    /\ nInstr' = s.nInstr
    /\ conversationHistory' = s.conversationHistory
    /\ repoContext' = s.repoContext
    /\ pendingApprovals' = s.pendingApprovals
    /\ approval' = s.approval
    /\ timeoutId' = s.timeoutId
    /\ resolveCalls' = s.resolveCalls
    /\ settled' = s.settled
    /\ nextApprovalId' = s.nextApprovalId
    /\ timedOutNotes' = s.timedOutNotes
    /\ responses' = s.responses
    /\ last' = s.last

Set(s) ==
    /\ SetSession(s)
    /\ UNCHANGED <<input, pos, reader, response, detections, parserVars, http, textVars>>

NoCall == [ret |-> "-", id |-> 0, code |-> "-", emitted |-> <<>>]

\* The state at the entry of a handler: id is the approval id a gate handler is
\* called with, code the exit code the close handler is called with.
Begin(id, code) == [Cur EXCEPT !.last = [NoCall EXCEPT !.id = id, !.code = code]]

Return(s, value) == [s EXCEPT !.last.ret = value]

\* EventEmitter.emit('update', ...), on the session (src "session") or on the gate.
emit(s, src, type, user, msg, id) ==
    [s EXCEPT !.last.emitted =
        Append(@, [src |-> src, type |-> type, user |-> user, msg |-> msg, approvalId |-> id])]

EmptyExec ==
    [phase |-> "idle", proc |-> "none", user |-> "-", trunc |-> 0,
     dets |-> 0, resp |-> FALSE, detIdx |-> 0]

\* The locals of executeWithClaudeCodeCLI as declared at the spawn. warnings
\* counts the output-limit warning events emitted, stderr tells whether a
\* stderr chunk was handled, closed whether the close handler has run.
NewReader ==
    [buffer |-> <<>>, fullResponse |-> <<>>, totalChars |-> 0, totalWords |-> 0,
     warnedTokenLimit |-> FALSE, warnings |-> 0, truncationError |-> 0,
     stderr |-> FALSE, closed |-> FALSE]

NotDetected == [ran |-> FALSE, plain |-> <<>>, dedup |-> <<>>]

NullContext == [org |-> "", repo |-> "", branch |-> "", action |-> "null"]

\* No request has reached the server.
NoRequest == <<>>

\* No output is being read and no response is being scanned.
ReaderIdle == input = <<>> /\ pos = 0 /\ reader = NewReader

NotSummarized == [ran |-> FALSE, text |-> <<>>]

DetectorIdle == response = <<>> /\ detections = NotDetected /\ summary = NotSummarized

ParserIdle == instruction = <<>> /\ parsed = NullContext

ServerIdle == http = NoRequest

NotDescribed == [ran |-> FALSE, text |-> <<>>]

TextIdle == task = <<>> /\ description = NotDescribed

SessionInit ==
    /\ agent \in Agents
    /\ isProcessing = FALSE
    /\ currentProcess = 0
    /\ currentTask = 0
    /\ taskStatus = [k \in Execs |-> "none"]
    /\ exec = [k \in Execs |-> EmptyExec]
    /\ nInstr = 0
    /\ conversationHistory = <<>>
    /\ repoContext = [org |-> "", repo |-> "", branch |-> ""]
    /\ pendingApprovals = {}
    /\ approval = [i \in ApprovalIds |-> [userId |-> "-", waiter |-> 0]]
    /\ timeoutId = [i \in ApprovalIds |-> "unset"]
    /\ resolveCalls = [i \in ApprovalIds |-> 0]
    /\ settled = [i \in ApprovalIds |-> "unsettled"]
    /\ nextApprovalId = 1
    /\ timedOutNotes = [i \in ApprovalIds |-> 0]
    /\ responses = [i \in ApprovalIds |-> 0]
    /\ last = NoCall

Init == SessionInit /\ ReaderIdle /\ DetectorIdle /\ ParserIdle /\ ServerIdle /\ TextIdle

\* --------------------------------------------------------- IntentParser
\* Sample instructions, lower-cased, as their words.
Instructions ==
    {<<"fix", "the", "login", "bug">>,
     <<"create", "a", "new", "repo", "called", "demo">>,
     <<"switch", "to", "branch", "feature-x">>,
     <<"on", "the", "branch", "dev", "add", "tests">>,
     <<"switch", "to", "repo", "acme/demo">>,
     <<"use", "org", "acme", "repo", "demo", "on", "branch", "dev">>,
     <<"checkout", "branch", "dev", "in", "the", "same", "repo">>,
     <<"update", "the", "demo", "repo">>,
     <<"create", "a", "new", "repo", "called", "the">>,
     <<"fix", "version", "branch", "handling">>,
     <<"read", "the", "login", "report">>}

SampleWords == UNION {{i[k] : k \in 1..Len(i)} : i \in Instructions}

RESERVED_WORDS ==
    {"a", "an", "the", "and", "or", "but", "if", "then", "else", "for", "to", "from",
     "with", "in", "on", "at", "by", "as", "is", "it", "be", "are", "was", "were",
     "will", "would", "could", "should", "can", "may", "might", "must", "have", "has",
     "do", "does", "did", "this", "that", "these", "those", "my", "your", "our", "their",
     "new", "old", "all", "some", "any", "no", "not", "deploy", "push", "pull", "merge",
     "create", "update", "delete", "add", "remove", "get", "set", "run", "start", "stop",
     "called", "named", "use", "using", "like", "make", "please", "help", "want", "need"}

isValidRepoName(name) == Len(name) >= 2 /\ name \notin RESERVED_WORDS

\* The sample words a pattern's first word can end in and its last word can
\* begin: the patterns are not anchored.
Ending(w) ==
    IF w = "on" THEN {"on", "version"}
    ELSE IF w = "in" THEN {"in", "login"}
    ELSE {w}

Beginning(w) == IF w = "repo" THEN {"repo", "repository", "report"} ELSE {w}

\* The sample words made of \w characters only, and org/repo names.
WordChars == SampleWords \ {"feature-x", "acme/demo"}

\* repoName.split('/')
splitSlash(name) == IF name = "acme/demo" THEN <<"acme", "demo">> ELSE <<name>>

\* The items of a pattern: a word, an optional word, a captured word.
W(words) == [w |-> words, opt |-> FALSE, cap |-> FALSE]

O(words) == [w |-> words, opt |-> TRUE, cap |-> FALSE]

C(words) == [w |-> words, opt |-> FALSE, cap |-> TRUE]

NoMatch == [ok |-> FALSE, caps |-> <<>>]

\* The pattern matched against the words from position i on; an optional
\* word is taken when the rest still matches.
RECURSIVE MatchFrom(_, _, _)
MatchFrom(line, i, pat) ==
    IF pat = <<>>
    THEN [ok |-> TRUE, caps |-> <<>>]
    ELSE LET item == Head(pat)
             rest == MatchFrom(line, i + 1, Tail(pat))
             take == IF i <= Len(line) /\ line[i] \in item.w /\ rest.ok
                     THEN [ok |-> TRUE,
                           caps |-> IF item.cap THEN <<line[i]>> \o rest.caps ELSE rest.caps]
                     ELSE NoMatch
         IN IF take.ok THEN take
            ELSE IF item.opt THEN MatchFrom(line, i, Tail(pat))
            ELSE NoMatch

\* String.match with alternatives pats: the leftmost match, and at one
\* position the first alternative that matches.
match(line, pats) ==
    LET hits == {i \in 1..Len(line) : \E k \in 1..Len(pats) : MatchFrom(line, i, pats[k]).ok}
    IN IF hits = {} THEN NoMatch
       ELSE LET i == CHOOSE x \in hits : \A y \in hits : x <= y
                k == CHOOSE x \in 1..Len(pats) :
                        /\ MatchFrom(line, i, pats[x]).ok
                        /\ \A y \in 1..(x - 1) : ~MatchFrom(line, i, pats[y]).ok
            IN MatchFrom(line, i, pats[k])

Repo == W({"repo", "repository"})

createRepoMatch(lower) ==
    match(lower, <<<<W(Ending("create")), O({"a"}), O({"new"}), Repo,
                     W({"called", "named"}), C(SampleWords)>>>>)

orgRepoTail == <<O({"the"}), W({"org", "organization"}), C(SampleWords), Repo, C(SampleWords)>>

orgRepoMatch(lower) ==
    match(lower, << <<W(Ending("go")), W({"to"})>> \o orgRepoTail,
                    <<W(Ending("switch")), W({"to"})>> \o orgRepoTail,
                    <<W(Ending("use"))>> \o orgRepoTail >>)

switchRepoTail == <<O({"the"}), Repo, C(SampleWords)>>

switchRepoMatch(lower) ==
    match(lower, << <<W(Ending("go")), W({"to"})>> \o switchRepoTail,
                    <<W(Ending("switch")), W({"to"})>> \o switchRepoTail,
                    <<W(Ending("use"))>> \o switchRepoTail,
                    <<W(Ending("in"))>> \o switchRepoTail >>)

branchTail == <<O({"the"}), W({"branch"}), C(SampleWords)>>

branchMatch(lower) ==
    match(lower, << <<W(Ending("on"))>> \o branchTail,
                    <<W(Ending("switch")), W({"to"})>> \o branchTail,
                    <<W(Ending("checkout"))>> \o branchTail,
                    <<W(Ending("use"))>> \o branchTail >>)

simpleRepoMatch(lower) ==
    match(lower, << <<W(Ending("the")), C(WordChars), W(Beginning("repo"))>>,
                    <<W(Ending("in")), C(WordChars), W(Beginning("repo"))>> >>)

\* lower.includes('in the same repo') || lower.includes('same repository')
sameRepo(lower) ==
    \/ match(lower, <<<<W(Ending("in")), W({"the"}), W({"same"}), W(Beginning("repo"))>>>>).ok
    \/ match(lower, <<<<W(Ending("same")), W(Beginning("repository"))>>>>).ok

Context(org, repo, action) == [org |-> org, repo |-> repo, branch |-> "", action |-> action]

\* parseRepoContext: an absent field is "", a null result is NullContext.
parseRepoContext(lower) ==
    LET create == createRepoMatch(lower)
        orgRepo == orgRepoMatch(lower)
        switch == switchRepoMatch(lower)
        branch == branchMatch(lower)
        simple == simpleRepoMatch(lower)
        c1 == IF create.ok /\ isValidRepoName(create.caps[1])
              THEN Context("", create.caps[1], "create")
              ELSE NullContext
        c2 == IF orgRepo.ok /\ isValidRepoName(orgRepo.caps[1])
                 /\ isValidRepoName(orgRepo.caps[2])
              THEN Context(orgRepo.caps[1], orgRepo.caps[2], "switch")
              ELSE c1
        name == splitSlash(switch.caps[1])
        c3 == IF switch.ok /\ c2 = NullContext
              THEN IF Len(name) = 2
                   THEN IF isValidRepoName(name[1]) /\ isValidRepoName(name[2])
                        THEN Context(name[1], name[2], "switch")
                        ELSE c2
                   ELSE IF isValidRepoName(name[1])
                        THEN Context("", name[1], "switch")
                        ELSE c2
              ELSE c2
        c4 == IF branch.ok
              THEN IF c3 # NullContext
                   THEN [c3 EXCEPT !.branch = branch.caps[1]]
                   ELSE [Context("", "", "switch") EXCEPT !.branch = branch.caps[1]]
              ELSE c3
    IN IF sameRepo(lower) THEN NullContext
       ELSE IF simple.ok /\ c4 = NullContext /\ isValidRepoName(simple.caps[1])
       THEN Context("", simple.caps[1], "switch")
       ELSE c4

\* ------------------------------------------------------- SessionManager
\* The instructions the session is given, and the contexts they resolve to.
SessionInstructions ==
    {<<"fix", "the", "login", "bug">>,
     <<"create", "a", "new", "repo", "called", "demo">>,
     <<"switch", "to", "branch", "feature-x">>}

ParsedContexts == {parseRepoContext(i) : i \in SessionInstructions}

setRepoContext(s, org, repo, branch) ==
    [s EXCEPT !.repoContext =
        [org |-> org, repo |-> repo, branch |-> IF branch # "" THEN branch ELSE @.branch]]

setBranch(s, branch) == [s EXCEPT !.repoContext.branch = branch]

\* applyContext variant: the parsed org and repo are stored even when absent.
applyContext_StoreAbsent(s, context) ==
    setRepoContext(s, context.org, context.repo, context.branch)

applyContext(s, context) ==
    IF context.org # "" \/ context.repo # ""
    THEN setRepoContext(s,
                        IF context.org # "" THEN context.org ELSE s.repoContext.org,
                        IF context.repo # "" THEN context.repo ELSE s.repoContext.repo,
                        context.branch)
    ELSE IF context.branch # "" THEN setBranch(s, context.branch) ELSE s

startTask(s, userId) ==
    LET k == s.nInstr + 1
    IN [s EXCEPT !.nInstr = k, !.currentTask = k, !.taskStatus[k] = "running",
                 !.exec[k].user = userId]

completeTask(s) ==
    IF s.currentTask # 0 THEN [s EXCEPT !.taskStatus[s.currentTask] = "completed"] ELSE s

failTask(s) ==
    IF s.currentTask # 0 THEN [s EXCEPT !.taskStatus[s.currentTask] = "failed"] ELSE s

\* --------------------------------------------------------- ApprovalGate
clearTimeout_Noop(s, id) == s

clearTimeout(s, id) ==
    [s EXCEPT !.timeoutId[id] = IF @ = "armed" THEN "cleared" ELSE @]

\* pending.resolve(value): the promise keeps the first value it is given.
resolve(s, id, value) ==
    [s EXCEPT !.resolveCalls[id] = @ + 1,
              !.settled[id] = IF @ = "unsettled" THEN value ELSE @]

\* handleResponse variants: the record is not deleted; the requester is not
\* compared; the timer is left armed.
handleResponse_NoDelete(s, approvalId, approved, userId) ==
    IF approvalId \notin s.pendingApprovals
    THEN Return(s, "false")
    ELSE IF s.approval[approvalId].userId # userId
    THEN Return(s, "false")
    ELSE LET s2 == resolve(clearTimeout(s, approvalId), approvalId, approved)
         IN Return([s2 EXCEPT !.responses[approvalId] = @ + 1], "true")

handleResponse_NoUserCheck(s, approvalId, approved, userId) ==
    IF approvalId \notin s.pendingApprovals
    THEN Return(s, "false")
    ELSE LET s1 == [clearTimeout(s, approvalId) EXCEPT !.pendingApprovals = @ \ {approvalId}]
             s2 == resolve(s1, approvalId, approved)
         IN Return([s2 EXCEPT !.responses[approvalId] = @ + 1], "true")

handleResponse_KeepTimer(s, approvalId, approved, userId) ==
    IF approvalId \notin s.pendingApprovals
    THEN Return(s, "false")
    ELSE IF s.approval[approvalId].userId # userId
    THEN Return(s, "false")
    ELSE LET s1 == [s EXCEPT !.pendingApprovals = @ \ {approvalId}]
             s2 == resolve(s1, approvalId, approved)
         IN Return([s2 EXCEPT !.responses[approvalId] = @ + 1], "true")

handleResponse(s, approvalId, approved, userId) ==
    IF approvalId \notin s.pendingApprovals
    THEN Return(s, "false")
    ELSE IF s.approval[approvalId].userId # userId
    THEN Return(s, "false")
    ELSE LET s1 == [clearTimeout(s, approvalId) EXCEPT !.pendingApprovals = @ \ {approvalId}]
             s2 == resolve(s1, approvalId, approved)
         IN Return([s2 EXCEPT !.responses[approvalId] = @ + 1], "true")

\* A listener of the gate's 'update' event, run inside emit: it answers the
\* request at once (approved "true" or "false") or does nothing ("none").
listener(s, approvalId, approved, userId) ==
    IF approved = "none" THEN s ELSE handleResponse(s, approvalId, approved, userId)

\* requestApproval on behalf of execution e (0: a caller outside this session),
\* with what the listener of the event does.
requestApprovalNotify(s, userId, e, approved) ==
    LET id == s.nextApprovalId
    IN IF id > MaxApprovals
       THEN [s EXCEPT !.overflow = TRUE]
       ELSE LET s1 == emit(s, "gate", "APPROVAL_REQUIRED", userId, "approval required", id)
                s2 == listener(s1, id, approved, userId)
            IN [s2 EXCEPT !.timeoutId[id] = "armed",
                          !.approval[id] = [userId |-> userId, waiter |-> e],
                          !.pendingApprovals = @ \cup {id},
                          !.nextApprovalId = id + 1]

requestApproval(s, userId, e) == requestApprovalNotify(s, userId, e, "none")

\* The setTimeout callback of requestApproval.
timeoutCallback(s, id) ==
    LET s1 == [s EXCEPT !.timeoutId[id] = "fired", !.pendingApprovals = @ \ {id}]
        s2 == emit(s1, "gate", "ERROR", s.approval[id].userId, "timed out", id)
        s3 == [s2 EXCEPT !.timedOutNotes[id] = @ + 1]
    IN resolve(s3, id, "false")

\* cancelRecords variant: the timers are left armed.
cancelRecords_KeepTimer(s, ids) ==
    [s EXCEPT !.resolveCalls = [i \in ApprovalIds |-> IF i \in ids THEN @[i] + 1 ELSE @[i]],
              !.settled = [i \in ApprovalIds |->
                              IF i \in ids /\ @[i] = "unsettled" THEN "false" ELSE @[i]],
              !.pendingApprovals = @ \ ids]

\* The body shared by the two bulk cancels, applied to the records ids.
cancelRecords(s, ids) ==
    [s EXCEPT !.timeoutId = [i \in ApprovalIds |->
                                IF i \in ids /\ @[i] = "armed" THEN "cleared" ELSE @[i]],
              !.resolveCalls = [i \in ApprovalIds |-> IF i \in ids THEN @[i] + 1 ELSE @[i]],
              !.settled = [i \in ApprovalIds |->
                              IF i \in ids /\ @[i] = "unsettled" THEN "false" ELSE @[i]],
              !.pendingApprovals = @ \ ids]

\* cancelAllForUser variant: the requester is not compared.
cancelAllForUser_Everyone(s, userId) == cancelRecords(s, s.pendingApprovals)

cancelAllForUser(s, userId) ==
    cancelRecords(s, {i \in s.pendingApprovals : s.approval[i].userId = userId})

clearAll(s) == cancelRecords(s, s.pendingApprovals)

\* ---------------------------------------------- session: promise chain
InProgress(x) == x.phase \in {"inflight", "awaiting"}

\* processInstruction's finally block, after which it returns.
finallyBlock(s, e) ==
    [s EXCEPT !.isProcessing = FALSE, !.currentProcess = 0, !.exec[e].phase = "returned"]

\* catchBlock variant: the Task is not marked failed.
catchBlock_NoFail(s, e) ==
    emit(s, "session", "ERROR", s.exec[e].user, "failed to process", 0)

\* processInstruction's catch block.
catchBlock(s, e) ==
    emit(failTask(s), "session", "ERROR", s.exec[e].user, "failed to process", 0)

\* resolve() / reject() of the promise executeWithClaudeCodeCLI returns: the
\* first call wakes processInstruction, a later call does nothing.
resolvePromise(s, e) == IF InProgress(s.exec[e]) THEN finallyBlock(s, e) ELSE s

rejectPromise(s, e) == IF InProgress(s.exec[e]) THEN finallyBlock(catchBlock(s, e), e) ELSE s

\* An exception inside the work that follows the agent's output. The close
\* handler of ClaudeCodeSession is an async callback without a try: its
\* promise rejects and neither resolve nor reject is called. executeWithOpenAI
\* wraps the same work in try/catch and returns normally.
raise(s, e) ==
    IF s.agent = "claude"
    THEN IF InProgress(s.exec[e]) THEN [s EXCEPT !.exec[e].phase = "hung"] ELSE s
    ELSE resolvePromise(
            emit(failTask(s), "session", "ERROR", s.exec[e].user, "codex failed", 0), e)

\* The for-loop over the detections from position detIdx, up to the next
\* await, and the completion that follows the loop. thr: the subscriber throws
\* on the TASK_COMPLETE event.
approvalLoop(s, e, thr) ==
    LET x == s.exec[e]
    IN IF x.detIdx < x.dets
       THEN LET s1 == requestApproval(s, x.user, e)
            IN [s1 EXCEPT !.exec[e].detIdx = @ + 1, !.exec[e].phase = "awaiting"]
       ELSE LET s1 == IF x.resp
                      THEN [s EXCEPT !.conversationHistory = Append(@, "assistant")]
                      ELSE s
                s2 == emit(completeTask(s1), "session", "TASK_COMPLETE", x.user, "summary", 0)
            IN IF thr THEN raise(s2, e) ELSE resolvePromise(s2, e)

\* afterApproval variant: a rejected action fails the Task and ends the run.
afterApproval_FailOnReject(s, e, approved) ==
    IF approved
    THEN approvalLoop(emit(s, "session", "STATUS_UPDATE", s.exec[e].user, "approved", 0), e, FALSE)
    ELSE resolvePromise(
            emit(failTask(s), "session", "STATUS_UPDATE", s.exec[e].user, "rejected", 0), e)

\* afterApproval variant: a rejection drops the detected actions that remain.
afterApproval_StopOnReject(s, e, approved) ==
    IF approved
    THEN approvalLoop(emit(s, "session", "STATUS_UPDATE", s.exec[e].user, "approved", 0), e, FALSE)
    ELSE approvalLoop(
            emit([s EXCEPT !.exec[e].detIdx = s.exec[e].dets],
                 "session", "STATUS_UPDATE", s.exec[e].user, "rejected", 0),
            e, FALSE)

\* The continuation of `await requestApproval(...)`.
afterApproval(s, e, approved) ==
    approvalLoop(emit(s, "session", "STATUS_UPDATE", s.exec[e].user,
                      IF approved THEN "approved" ELSE "rejected", 0),
                 e, FALSE)

Min(S) == CHOOSE m \in S : \A n \in S : m <= n

\* The microtasks a gate handler leaves behind: the continuation of every
\* execution whose approval it settled, in the order of settlement.
RECURSIVE RunWaiters(_, _)
RunWaiters(s, ids) ==
    IF ids = {} THEN s
    ELSE LET i == Min(ids)
             w == s.approval[i].waiter
             s1 == IF w # 0 /\ s.exec[w].phase = "awaiting"
                   THEN afterApproval(s, w, s.settled[i] = "true")
                   ELSE s
         IN RunWaiters(s1, ids \ {i})

NewlySettled(s) == {i \in ApprovalIds : settled[i] = "unsettled" /\ s.settled[i] # "unsettled"}

AfterGate(s) == RunWaiters(s, NewlySettled(s))

\* ------------------------------------------------ session: the handlers
\* The lines a stdout chunk can carry: plain text, a line holding a sensitive
\* command, raw text saying "response truncated", and a record
\* whose stop_reason is max_tokens (no content).
LineSamples ==
    {[marks |-> {}, content |-> TRUE, cmd |-> FALSE],
     [marks |-> {}, content |-> TRUE, cmd |-> TRUE],
     [marks |-> {1}, content |-> TRUE, cmd |-> FALSE],
     [marks |-> {3, 4}, content |-> FALSE, cmd |-> FALSE]}

\* detectTruncation: latch the message of the first pattern that matches.
detectTruncation(s, e, marks) ==
    IF s.exec[e].trunc # 0 \/ marks = {}
    THEN s
    ELSE [s EXCEPT !.exec[e].trunc = Min(marks)]

\* The stdout 'data' handler, for a chunk made of one complete line.
stdoutData(s, e, line) ==
    LET s1 == detectTruncation(s, e, line.marks)
    IN [s1 EXCEPT !.exec[e].resp = @ \/ line.content,
                  !.exec[e].dets = IF line.cmd THEN @ + 1 ELSE @]

\* stderrData variant: stderr is not scanned for truncation.
stderrData_Ignore(s, e, marks) == s

\* The stderr 'data' handler.
stderrData(s, e, marks) == detectTruncation(s, e, marks)

\* The 'error' handler of the subprocess.
errorHandler(s, e) ==
    rejectPromise([failTask(s) EXCEPT !.exec[e].proc = "errored"], e)

\* closeHandler variant: the exit code is looked at before the truncation latch.
closeHandler_ExitFirst(s, e, code, thr) ==
    LET s1 == [s EXCEPT !.exec[e].proc = "closed"]
        x == s1.exec[e]
    IN IF code # "0" /\ code # "null"
       THEN LET s2 == emit(failTask(s1), "session", "ERROR", x.user, "exit code", 0)
            IN IF thr THEN raise(s2, e) ELSE rejectPromise(s2, e)
       ELSE IF x.trunc # 0
       THEN LET s2 == emit(failTask(s1), "session", "ERROR", x.user, TruncMessage(x.trunc), 0)
            IN IF thr THEN raise(s2, e) ELSE resolvePromise(s2, e)
       ELSE approvalLoop(s1, e, thr)

\* closeHandler variant: a null exit code counts as a failure.
closeHandler_NullFails(s, e, code, thr) ==
    LET s1 == [s EXCEPT !.exec[e].proc = "closed"]
        x == s1.exec[e]
    IN IF x.trunc # 0
       THEN LET s2 == emit(failTask(s1), "session", "ERROR", x.user, TruncMessage(x.trunc), 0)
            IN IF thr THEN raise(s2, e) ELSE resolvePromise(s2, e)
       ELSE IF code # "0"
       THEN LET s2 == emit(failTask(s1), "session", "ERROR", x.user, "exit code", 0)
            IN IF thr THEN raise(s2, e) ELSE rejectPromise(s2, e)
       ELSE approvalLoop(s1, e, thr)

\* closeHandler variant: the truncation latch is not looked at.
closeHandler_NoTruncation(s, e, code, thr) ==
    LET s1 == [s EXCEPT !.exec[e].proc = "closed"]
        x == s1.exec[e]
    IN IF code # "0" /\ code # "null"
       THEN LET s2 == emit(failTask(s1), "session", "ERROR", x.user, "exit code", 0)
            IN IF thr THEN raise(s2, e) ELSE rejectPromise(s2, e)
       ELSE approvalLoop(s1, e, thr)

\* The 'close' handler of the subprocess, entered with an empty line buffer.
\* thr: the subscriber throws on the
\* first event this run of the handler emits on the session.
closeHandler(s, e, code, thr) ==
    LET s1 == [s EXCEPT !.exec[e].proc = "closed"]
        x == s1.exec[e]
    IN IF x.trunc # 0
       THEN LET s2 == emit(failTask(s1), "session", "ERROR", x.user, TruncMessage(x.trunc), 0)
            IN IF thr THEN raise(s2, e) ELSE resolvePromise(s2, e)
       ELSE IF code # "0" /\ code # "null"
       THEN LET s2 == emit(failTask(s1), "session", "ERROR", x.user, "exit code", 0)
            IN IF thr THEN raise(s2, e) ELSE rejectPromise(s2, e)
       ELSE approvalLoop(s1, e, thr)

\* executeWithClaudeCodeCLI up to the return of its promise: the spawn.
executeWithClaudeCodeCLI(s, e) ==
    [s EXCEPT !.currentProcess = e, !.exec[e].proc = "alive", !.exec[e].phase = "inflight"]

\* executeWithOpenAI up to its first await: the request is sent.
executeWithOpenAI(s, e) == [s EXCEPT !.exec[e].phase = "inflight"]

\* processInstruction variant: the isProcessing test is missing.
processInstruction_NoGuard(s, context, userId, thr) ==
    IF s.nInstr >= MaxInstr
    THEN [s EXCEPT !.overflow = TRUE]
    ELSE LET s1 == [s EXCEPT !.isProcessing = TRUE]
             s3 == startTask(s1, userId)
             e == s3.nInstr
             s4 == emit(s3, "session", "STATUS_UPDATE", userId, "start", 0)
             s5 == [s4 EXCEPT !.conversationHistory = Append(@, "user")]
         IN IF thr
            THEN finallyBlock(catchBlock(s4, e), e)
            ELSE IF s.agent = "claude"
            THEN executeWithClaudeCodeCLI(s5, e)
            ELSE executeWithOpenAI(s5, e)

\* processInstruction up to its first await. thr: the subscriber throws on the
\* "Starting" status event.
processInstruction(s, context, userId, thr) ==
    IF s.isProcessing
    THEN emit(s, "session", "ERROR", userId, "busy", 0)
    ELSE IF s.nInstr >= MaxInstr
    THEN [s EXCEPT !.overflow = TRUE]
    ELSE LET s1 == [s EXCEPT !.isProcessing = TRUE]
             s2 == IF context.action # "null"
                   THEN emit(applyContext(s1, context), "session", "STATUS_UPDATE", userId,
                             "context", 0)
                   ELSE s1
             s3 == startTask(s2, userId)
             e == s3.nInstr
             s4 == emit(s3, "session", "STATUS_UPDATE", userId, "start", 0)
             s5 == [s4 EXCEPT !.conversationHistory = Append(@, "user")]
         IN IF thr
            THEN finallyBlock(catchBlock(s4, e), e)
            ELSE IF s.agent = "claude"
            THEN executeWithClaudeCodeCLI(s5, e)
            ELSE executeWithOpenAI(s5, e)

\* cancelCurrentTask variant: the subprocess handle is not tested.
cancelCurrentTask_NoHandleTest(s) ==
    failTask([s EXCEPT !.currentProcess = 0, !.isProcessing = FALSE])

\* cancelCurrentTask (ClaudeCodeSession only). kill('SIGTERM') asks the subprocess
\* to end; its 'close' event, with a null exit code, comes later.
cancelCurrentTask(s) ==
    IF s.currentProcess # 0
    THEN failTask([s EXCEPT !.currentProcess = 0, !.isProcessing = FALSE])
    ELSE s

\* The chat completion arrives: the rest of executeWithOpenAI's try block.
openAIReply(s, e, dets, resp, thr) ==
    approvalLoop([s EXCEPT !.exec[e].dets = dets, !.exec[e].resp = resp], e, thr)

\* ---------------------------------------------------------------- actions
\* The user the session serves, and the users known to the gate.
SessionUser == "u1"

SubmitStep(userId, context, thr) ==
    Set(processInstruction(Begin(0, "-"), context, userId, thr))

\* The contexts of the instructions that get accepted.
AcceptedContexts == {c \in ParsedContexts : c.repo = ""}

Submit ==
    \E context \in ParsedContexts, thr \in BOOLEAN :
        /\ ~isProcessing => context \in AcceptedContexts
        /\ SubmitStep(SessionUser, context, thr)

Cancel ==
    /\ agent = "claude"
    /\ Set(cancelCurrentTask(Begin(0, "-")))

ProcStdout ==
    \E e \in Execs, line \in LineSamples :
        /\ exec[e].proc = "alive"
        /\ line.cmd => exec[e].dets < MaxDetect
        /\ Set(stdoutData(Begin(0, "-"), e, line))

ProcStderr ==
    \E e \in Execs, marks \in TextSamples \ {{}} :
        /\ exec[e].proc = "alive"
        /\ Set(stderrData(Begin(0, "-"), e, marks))

\* The spawn failed: 'error' is emitted, and 'close' follows it.
ProcError ==
    \E e \in Execs :
        /\ exec[e].proc = "alive"
        /\ exec[e].trunc = 0 /\ ~exec[e].resp
        /\ Set(errorHandler(Begin(0, "-"), e))

ProcCloseStep(e, code, thr) ==
    /\ exec[e].proc \in {"alive", "errored"}
    /\ code \in IF exec[e].proc = "errored" THEN {SpawnErrno} ELSE ExitCodes
    /\ Set(closeHandler(Begin(0, code), e, code, thr))

ProcClose ==
    \E e \in Execs, code \in ExitCodes \cup {SpawnErrno}, thr \in BOOLEAN : ProcCloseStep(e, code, thr)

AgentReply ==
    \E e \in Execs, dets \in 0..MaxDetect, resp \in BOOLEAN, thr \in BOOLEAN :
        /\ agent = "codex"
        /\ exec[e].phase = "inflight"
        /\ dets > 0 => resp
        /\ Set(openAIReply(Begin(0, "-"), e, dets, resp, thr))

AgentFail ==
    \E e \in Execs :
        /\ agent = "codex"
        /\ exec[e].phase = "inflight"
        /\ Set(raise(Begin(0, "-"), e))

\* requestApproval called by another session that shares the gate.
RequestApprovalStep(userId) == Set(requestApproval(Begin(nextApprovalId, "-"), userId, 0))

RequestApproval == \E userId \in Users : RequestApprovalStep(userId)

\* requestApproval whose event a listener answers as it receives it.
AnswerOnEventStep(userId, approved) ==
    Set(requestApprovalNotify(Begin(nextApprovalId, "-"), userId, 0, approved))

AnswerOnEvent ==
    \E userId \in Users, approved \in {"true", "false"} : AnswerOnEventStep(userId, approved)

HandleResponseStep(approvalId, approved, userId) ==
    Set(AfterGate(handleResponse(Begin(approvalId, "-"), approvalId, approved, userId)))

HandleResponse ==
    \E approvalId \in ApprovalIds, approved \in {"true", "false"}, userId \in Users :
        HandleResponseStep(approvalId, approved, userId)

TimeoutStep(id) ==
    /\ timeoutId[id] = "armed"
    /\ Set(AfterGate(timeoutCallback(Begin(id, "-"), id)))

Timeout == \E id \in ApprovalIds : TimeoutStep(id)

CancelAllForUserStep(userId) == Set(AfterGate(cancelAllForUser(Begin(0, "-"), userId)))

CancelAllForUser == \E userId \in Users : CancelAllForUserStep(userId)

ClearAll == Set(AfterGate(clearAll(Begin(0, "-"))))

\* OrchestratorServer.setupEventForwarding: the emitters whose 'update' events
\* the server listens to, and the updates of a handler it passes to broadcastUpdate.
forwarded == {"session"}

broadcastUpdate(s) == SelectSeq(s.emitted, LAMBDA update : update.src \in forwarded)

\* The session with the gate it was given; every approval is one the session
\* requested.
Next ==
    \/ Submit
    \/ Cancel
    \/ ProcStdout
    \/ ProcStderr
    \/ ProcError
    \/ ProcClose
    \/ AgentReply
    \/ AgentFail
    \/ HandleResponse
    \/ Timeout
    \/ CancelAllForUser
    \/ ClearAll

Spec == Init /\ [][Next]_vars

\* The gate alone, called by any number of sessions and responders.
GateNext ==
    \/ RequestApproval
    \/ AnswerOnEvent
    \/ HandleResponse
    \/ Timeout
    \/ CancelAllForUser
    \/ ClearAll

GateSpec == Init /\ [][GateNext]_vars

\* --------------------------------------------------- the output reader
\* The stdout of the subprocess at the level of bytes. A byte is one of:
\*   "n"       the newline
\*   "A" "R"   the opening of a JSON record of type assistant / result, whose
\*             content (result) is the rest of the line
\*   "X"       the opening of a JSON record of type text
\*   "S"       a JSON record that carries "stop_reason":"max_tokens"
\*   "w" " "   a letter and a space
\*   "t"       the text "response truncated"
\*   "L" "T"   the lead byte and the continuation byte of a two-byte character
\* A decoded character is one of these, or "e" (the two-byte character) or
\* "?" (U+FFFD).
MaxLines == 2        \* lines of one output stream

averageCharsPerToken == 4

TokenLimit == 2      \* config.tokenLimit

tokenWarningRatioNum == 9
tokenWarningRatioDen == 10

LineShapes ==
    {<<>>, <<" ">>, <<"w">>, <<"t">>, <<"S">>, <<"A", "w">>, <<"A", "L", "T">>,
     <<"R", "w", " ", "w">>, <<"X", "w">>, <<"w", "w", "w", "w", "w">>}

\* The streams: up to MaxLines lines, the last one with or without its newline.
RECURSIVE CompleteLines(_)
CompleteLines(k) ==
    IF k = 0 THEN {<<>>}
    ELSE {p \o l \o <<"n">> : p \in CompleteLines(k - 1), l \in LineShapes}

Streams ==
    UNION {{p \o l \o e : p \in CompleteLines(k), l \in LineShapes, e \in {<<>>, <<"n">>}} :
              k \in 0..(MaxLines - 1)}

\* Buffer.toString(): UTF-8 decoding of one chunk. A lead byte without its
\* continuation byte and a continuation byte without its lead byte each decode
\* to U+FFFD.
RECURSIVE toString(_)
toString(data) ==
    IF data = <<>> THEN <<>>
    ELSE IF Head(data) = "L"
    THEN IF Len(data) >= 2 /\ data[2] = "T"
         THEN <<"e">> \o toString(Tail(Tail(data)))
         ELSE <<"?">> \o toString(Tail(data))
    ELSE IF Head(data) = "T"
    THEN <<"?">> \o toString(Tail(data))
    ELSE <<Head(data)>> \o toString(Tail(data))

\* text.split('\n'), as the pieces before the last one and the last one.
RECURSIVE split(_, _, _)
split(text, piece, pieces) ==
    IF text = <<>> THEN [lines |-> pieces, rest |-> piece]
    ELSE IF Head(text) = "n"
    THEN split(Tail(text), <<>>, Append(pieces, piece))
    ELSE split(Tail(text), Append(piece, Head(text)), pieces)

\* !text.trim()
Blank(text) == \A i \in 1..Len(text) : text[i] = " "

\* text.trim().split(/\s+/).length, 0 for a blank text.
Words(text) ==
    Cardinality({i \in 1..Len(text) : text[i] # " " /\ (i = 1 \/ text[i - 1] = " ")})

\* The truncation patterns whose regex matches the text.
Matches(text) ==
    (IF \E i \in 1..Len(text) : text[i] = "t" THEN {1} ELSE {})
        \cup (IF \E i \in 1..Len(text) : text[i] = "S" THEN {3, 4} ELSE {})

\* JSON.parse(line): the record a line holds, type "raw" when it throws.
IsJSON(line) == line # <<>> /\ line[1] \in {"A", "R", "S", "X"}

\* trackTokenUsage variant: the warnedTokenLimit flag is never set.
trackTokenUsage_NoFlag(r, text) ==
    IF text = <<>> THEN r
    ELSE LET chars == r.totalChars + Len(text)
             words == r.totalWords + Words(text)
             ceil == (chars + averageCharsPerToken - 1) \div averageCharsPerToken
             approxTokens == IF ceil >= words THEN ceil ELSE words
             r1 == [r EXCEPT !.totalChars = chars, !.totalWords = words]
         IN IF ~r.warnedTokenLimit
                /\ approxTokens * tokenWarningRatioDen >= TokenLimit * tokenWarningRatioNum
            THEN [r1 EXCEPT !.warnings = @ + 1]
            ELSE r1

trackTokenUsage(r, text) ==
    IF text = <<>> THEN r
    ELSE LET chars == r.totalChars + Len(text)
             words == r.totalWords + Words(text)
             ceil == (chars + averageCharsPerToken - 1) \div averageCharsPerToken
             approxTokens == IF ceil >= words THEN ceil ELSE words
             r1 == [r EXCEPT !.totalChars = chars, !.totalWords = words]
         IN IF ~r.warnedTokenLimit
                /\ approxTokens * tokenWarningRatioDen >= TokenLimit * tokenWarningRatioNum
            THEN [r1 EXCEPT !.warnedTokenLimit = TRUE, !.warnings = @ + 1]
            ELSE r1

\* latch variant: a later match replaces the reason.
latch_Overwrite(r, marks) ==
    IF marks = {} THEN r ELSE [r EXCEPT !.truncationError = Min(marks)]

\* detectTruncation on the reader, for a text matching the patterns marks.
latch(r, marks) ==
    IF r.truncationError # 0 \/ marks = {}
    THEN r
    ELSE [r EXCEPT !.truncationError = Min(marks)]

\* The body of the for-loop over the complete lines. handleStreamMessage emits
\* nothing for these lines (no tool_use record, no content over 50 characters).
processLine(r, line) ==
    IF Blank(line) THEN r
    ELSE LET r1 == latch(r, Matches(line))
             content == Tail(line)
         IN IF ~IsJSON(line)
            THEN trackTokenUsage([r1 EXCEPT !.fullResponse = @ \o line \o <<"n">>], line)
            ELSE IF line[1] \in {"A", "R"} /\ content # <<>>
            THEN trackTokenUsage([r1 EXCEPT !.fullResponse = @ \o content], content)
            ELSE IF line[1] = "S"
            THEN latch(r1, {3})
            ELSE IF line[1] = "X" /\ content # <<>>
            THEN trackTokenUsage(r1, content)
            ELSE r1

RECURSIVE processLines(_, _)
processLines(r, lines) ==
    IF lines = <<>> THEN r ELSE processLines(processLine(r, Head(lines)), Tail(lines))

\* The stdout 'data' handler, for one chunk of bytes.
onStdoutData(r, data) ==
    LET s == split(r.buffer \o toString(data), <<>>, <<>>)
    IN processLines([r EXCEPT !.buffer = s.rest], s.lines)

\* The stderr 'data' handler, for a chunk matching the patterns marks.
onStderrData(r, marks) == [latch(r, marks) EXCEPT !.stderr = TRUE]

\* The close handler up to the truncation test: the remaining buffer.
onCloseBuffer(r) ==
    LET b == r.buffer
        r1 == IF Blank(b) THEN r
              ELSE LET r2 == latch(r, Matches(b))
                   IN IF ~IsJSON(b)
                      THEN trackTokenUsage([r2 EXCEPT !.fullResponse = @ \o b], b)
                      ELSE IF b[1] = "A" /\ Tail(b) # <<>>
                      THEN trackTokenUsage([r2 EXCEPT !.fullResponse = @ \o Tail(b)], Tail(b))
                      ELSE r2
    IN [r1 EXCEPT !.closed = TRUE]

\* The whole stream delivered by a single 'data' event, then the close.
OneChunk(stream) ==
    onCloseBuffer(IF stream = <<>> THEN NewReader ELSE onStdoutData(NewReader, stream))

FeedStep(n) ==
    /\ ~reader.closed
    /\ pos + n <= Len(input)
    /\ reader' = onStdoutData(reader, SubSeq(input, pos + 1, pos + n))
    /\ pos' = pos + n
    /\ UNCHANGED <<agent, isProcessing, currentProcess, currentTask, taskStatus, exec, nInstr,
                   conversationHistory, repoContext, pendingApprovals, approval, timeoutId,
                   resolveCalls, settled, nextApprovalId, timedOutNotes, responses, last,
                   input, response, detections, parserVars, http, textVars>>

Feed == \E n \in 1..Len(input) : FeedStep(n)

ReaderStderr ==
    \E marks \in TextSamples \ {{}} :
        /\ ~reader.closed
        /\ reader' = onStderrData(reader, marks)
        /\ UNCHANGED <<agent, isProcessing, currentProcess, currentTask, taskStatus, exec,
                       nInstr, conversationHistory, repoContext, pendingApprovals, approval,
                       timeoutId, resolveCalls, settled, nextApprovalId, timedOutNotes,
                       responses, last, input, pos, response, detections, parserVars,
                       http, textVars>>

ReaderClose ==
    /\ ~reader.closed
    /\ pos = Len(input)
    /\ reader' = onCloseBuffer(reader)
    /\ UNCHANGED <<agent, isProcessing, currentProcess, currentTask, taskStatus, exec, nInstr,
                   conversationHistory, repoContext, pendingApprovals, approval, timeoutId,
                   resolveCalls, settled, nextApprovalId, timedOutNotes, responses, last,
                   input, pos, response, detections, parserVars, http, textVars>>

\* One execution's output, for every stream and every way of cutting it into
\* chunks.
StreamInit ==
    /\ SessionInit
    /\ agent = "claude"
    /\ input \in Streams
    /\ pos = 0
    /\ reader = NewReader
    /\ DetectorIdle
    /\ ParserIdle
    /\ ServerIdle
    /\ TextIdle

StreamNext == Feed \/ ReaderStderr \/ ReaderClose

StreamSpec == StreamInit /\ [][StreamNext]_vars

\* ------------------------------------------------------ ApprovalDetector
MaxResponseLines == 3    \* lines of one response text

\* Sample lines of a response, already trimmed, as their words.
ResponseLines ==
    {<<"All", "done.">>,
     <<"#", "git", "push">>,
     <<"-", "git", "push">>,
     <<"1.", "git", "push">>,
     <<"git", "push", "origin", "main">>,
     <<"git", "push", "origin", "main", "--force">>,
     <<"git", "push", "origin", "HEAD:main">>,
     <<"git", "merge", "dev">>,
     <<"npm", "publish">>,
     <<"yarn", "publish">>,
     <<"pnpm", "publish">>,
     <<"kubectl", "apply", "-f", "deploy.yml">>,
     <<"terraform", "apply">>,
     <<"see", "deploy.yml", "for", "details">>}

Responses == UNION {[1..k -> ResponseLines] : k \in 0..MaxResponseLines}

\* The words of the samples that end with, start with or contain the text w.
EndsWith(w) == IF w = "npm" THEN {"npm", "pnpm"} ELSE {w}

StartsWith(w) == IF w = "deploy" THEN {"deploy", "deploy.yml"} ELSE {w}

Containing(w) ==
    IF w = "deploy" THEN {"deploy", "deploy.yml"}
    ELSE IF w = "main" THEN {"main", "master", "HEAD:main"}
    ELSE IF w = ":" THEN {"HEAD:main"}
    ELSE IF w = ".yml" THEN {"deploy.yml"}
    ELSE {w}

\* /a\s+b/ and /a.*b/ as unanchored regular expressions over the line.
Adjacent(line, a, b) ==
    \E i \in 1..(Len(line) - 1) : line[i] \in EndsWith(a) /\ line[i + 1] \in StartsWith(b)

Contains(line, w) == \E i \in 1..Len(line) : line[i] \in Containing(w)

Then(line, a, b) ==
    \E i, j \in 1..Len(line) : i < j /\ line[i] \in Containing(a) /\ line[j] \in Containing(b)

\* /:.*(?:main|master)/
ColonBeforeMain(line) == Contains(line, "HEAD:main") \/ Then(line, ":", "main")

\* APPROVAL_PATTERNS: whether some pattern of the category matches. Patterns
\* none of whose words occur in the samples are left out. copy selects the
\* deploy patterns of the class that keeps seenActions.
CategoryMatches(category, line, copy) ==
    IF category = "git"
    THEN \/ Adjacent(line, "git", "push")
         \/ Adjacent(line, "git", "merge")
    ELSE IF category = "github"
    THEN Adjacent(line, "gh", "release")
    ELSE IF category = "npm"
    THEN \/ Adjacent(line, "npm", "publish")
         \/ Adjacent(line, "yarn", "publish")
         \/ Adjacent(line, "pnpm", "publish")
    ELSE \/ Adjacent(line, "kubectl", "apply")
         \/ Adjacent(line, "terraform", "apply")
         \/ IF copy
            THEN Len(line) > 1 /\ line[1] = "deploy"
            ELSE Contains(line, "deploy")

Categories == <<"git", "github", "npm", "deploy">>

\* actionDescriptions: the label of the first key of the category that
\* matches the command.
\* Label variant: the force-push key is tested before the push key.
Label_ForceFirst(category, line) ==
    IF category = "git"
    THEN IF Then(line, "push", "--force") THEN "Force push (destructive)"
         ELSE IF Contains(line, "push") THEN "Push to remote repository"
         ELSE IF Contains(line, "merge") THEN "Merge branches"
         ELSE "Execute sensitive command"
    ELSE IF category = "github"
    THEN IF Contains(line, "release") THEN "Create GitHub release"
         ELSE "Execute sensitive command"
    ELSE IF category = "npm"
    THEN IF Contains(line, "publish") THEN "Publish package to npm"
         ELSE "Execute sensitive command"
    ELSE IF Contains(line, "deploy") THEN "Deploy to environment"
         ELSE IF Then(line, "kubectl", "apply") THEN "Apply Kubernetes configuration"
         ELSE IF Then(line, "terraform", "apply") THEN "Apply Terraform changes"
         ELSE "Execute sensitive command"

Label(category, line) ==
    IF category = "git"
    THEN IF Contains(line, "push") THEN "Push to remote repository"
         ELSE IF Then(line, "push", "--force") THEN "Force push (destructive)"
         ELSE IF Contains(line, "merge") THEN "Merge branches"
         ELSE "Execute sensitive command"
    ELSE IF category = "github"
    THEN IF Contains(line, "release") THEN "Create GitHub release"
         ELSE "Execute sensitive command"
    ELSE IF category = "npm"
    THEN IF Contains(line, "publish") THEN "Publish package to npm"
         ELSE "Execute sensitive command"
    ELSE IF Contains(line, "deploy") THEN "Deploy to environment"
         ELSE IF Then(line, "kubectl", "apply") THEN "Apply Kubernetes configuration"
         ELSE IF Then(line, "terraform", "apply") THEN "Apply Terraform changes"
         ELSE "Execute sensitive command"

\* isSensitiveCommand variant: the --force pattern is missing.
isSensitiveCommand_NoForce(line) ==
    \/ Contains(line, "--hard")
    \/ ColonBeforeMain(line)
    \/ Adjacent(line, "npm", "publish")
    \/ Adjacent(line, "terraform", "apply")

isSensitiveCommand(line) ==
    \/ Contains(line, "--force")
    \/ Contains(line, "--hard")
    \/ ColonBeforeMain(line)
    \/ Adjacent(line, "npm", "publish")
    \/ Adjacent(line, "terraform", "apply")

\* extractDetails: the parts found, or the command itself when there is none.
extractDetails(line) ==
    LET at == {i \in 1..(Len(line) - 1) : line[i] \in EndsWith("origin")}
        branch == IF at = {} THEN <<>> ELSE <<<<"Branch", line[Min(at) + 1]>>>>
        force == IF Contains(line, "--force") THEN <<<<"Force flag enabled", "">>>> ELSE <<>>
        targets == {i \in 1..(Len(line) - 1) : line[i] \in {"--target", "--env", "-e"}}
        target == IF targets = {} THEN <<>> ELSE <<<<"Target", line[Min(targets) + 1]>>>>
        parts == branch \o force \o target
    IN IF parts = <<>> THEN <<<<"command", line>>>> ELSE parts

buildApprovalInfo(category, line) ==
    [category |-> category, action |-> Label(category, line), command |-> line,
     isSensitive |-> isSensitiveCommand(line), details |-> extractDetails(line)]

NoDetection ==
    [category |-> "null", action |-> "null", command |-> <<>>, isSensitive |-> FALSE,
     details |-> <<>>]

\* detect(command): the first category one of whose patterns matches.
detectWith(line, copy) ==
    LET hit == {c \in 1..Len(Categories) : CategoryMatches(Categories[c], line, copy)}
    IN IF hit = {} THEN NoDetection ELSE buildApprovalInfo(Categories[Min(hit)], line)

detect(command) == detectWith(command, FALSE)

\* trimmed.startsWith('#') || trimmed.startsWith('//')
IsComment(line) == line # <<>> /\ line[1] \in {"#", "//"}

\* detectInResponse of approval/detector.ts.
RECURSIVE detectInResponse(_)
detectInResponse(lines) ==
    IF lines = <<>> THEN <<>>
    ELSE LET detection == detect(Head(lines))
         IN IF ~IsComment(Head(lines)) /\ detection.category # "null"
            THEN <<detection>> \o detectInResponse(Tail(lines))
            ELSE detectInResponse(Tail(lines))

ActionKey(detection) == <<detection.category, detection.action>>

\* startsWith('*' | '-' | '>') and /^\d+\./
IsMarkdown(line) == line # <<>> /\ line[1] \in {"*", "-", ">", "1."}

looksLikeCommand(line) ==
    line # <<>> /\ line[1] \in {"git", "gh", "npm", "yarn", "pnpm", "kubectl", "docker",
                                "terraform", "deploy", "$"}

\* The lines the copy with seenActions passes over before calling detect.
Skipped(line) ==
    \/ IsComment(line)
    \/ IsMarkdown(line)
    \/ Contains(line, ".yml") /\ ~looksLikeCommand(line)

\* detectInResponse of the copy that keeps a seenActions set.
RECURSIVE detectInResponseSeen(_, _)
detectInResponseSeen(lines, seenActions) ==
    IF lines = <<>> THEN <<>>
    ELSE LET detection == detectWith(Head(lines), TRUE)
         IN IF ~Skipped(Head(lines)) /\ detection.category # "null"
                /\ ActionKey(detection) \notin seenActions
            THEN <<detection>>
                     \o detectInResponseSeen(Tail(lines), seenActions \cup {ActionKey(detection)})
            ELSE detectInResponseSeen(Tail(lines), seenActions)

DetectInResponse ==
    /\ ~detections.ran
    /\ detections' = [ran |-> TRUE, plain |-> detectInResponse(response),
                      dedup |-> detectInResponseSeen(response, {})]
    /\ UNCHANGED <<agent, isProcessing, currentProcess, currentTask, taskStatus, exec, nInstr,
                   conversationHistory, repoContext, pendingApprovals, approval, timeoutId,
                   resolveCalls, settled, nextApprovalId, timedOutNotes, responses, last,
                   input, pos, reader, response, parserVars, http, textVars>>

\* detectInResponse applied to every sample response.
DetectInit ==
    /\ SessionInit
    /\ agent = "claude"
    /\ ReaderIdle
    /\ response \in Responses
    /\ detections = NotDetected
    /\ summary = NotSummarized
    /\ ParserIdle
    /\ ServerIdle
    /\ TextIdle

DetectNext == DetectInResponse

DetectSpec == DetectInit /\ [][DetectNext]_vars

\* ---------------------------------------------------- OrchestratorServer
\* What the POST /instruction handler does for one request, in order:
\* "accepted" and "500" are responses sent, "processInstruction" the call,
\* "ERR_HTTP_HEADERS_SENT" a response refused because one was already sent.
Sent == {"accepted", "500"}

\* res.json(body): a response is sent once per request; a later one throws.
resJson(log, body) ==
    IF \E i \in 1..Len(log) : log[i] \in Sent
    THEN Append(log, "ERR_HTTP_HEADERS_SENT")
    ELSE Append(log, body)

\* processInstruction rejects before its first await: the listener throws on
\* the ERROR event of the busy branch, which is outside the try block.
rejects(s, thrBusy) == s.isProcessing /\ thrBusy

\* Handler variant: the acknowledgement follows the await.
postInstruction_AckAfter(s, thrBusy) ==
    IF rejects(s, thrBusy)
    THEN resJson(<<"processInstruction">>, "500")
    ELSE resJson(<<"processInstruction">>, "accepted")

\* The handler of POST /instruction up to the first await that suspends it.
postInstruction(s, thrBusy) ==
    LET acknowledged == Append(resJson(<<>>, "accepted"), "processInstruction")
    IN IF rejects(s, thrBusy) THEN resJson(acknowledged, "500") ELSE acknowledged

PostStep(context, thr, thrBusy) ==
    /\ SetSession(processInstruction(Begin(0, "-"), context, SessionUser, thr))
    /\ http' = postInstruction(Cur, thrBusy)
    /\ UNCHANGED <<input, pos, reader, response, detections, parserVars, textVars>>

Post ==
    \E context \in ParsedContexts, thr \in BOOLEAN, thrBusy \in BOOLEAN :
        /\ ~isProcessing => (context \in AcceptedContexts /\ ~thrBusy)
        /\ isProcessing => ~thr
        /\ PostStep(context, thr, thrBusy)

\* The server with its ClaudeCodeSession: instructions and approval responses
\* arrive by HTTP, stop() clears the gate.
ServerInit == Init /\ agent = "claude"

ServerNext ==
    \/ Post
    \/ ProcStdout
    \/ ProcStderr
    \/ ProcError
    \/ ProcClose
    \/ HandleResponse
    \/ Timeout
    \/ ClearAll

ServerSpec == ServerInit /\ [][ServerNext]_vars

\* ------------------------------------------- parseRepoContext on its own
\* processInstruction's first statement: the instruction is parsed.
Parse ==
    \E i \in Instructions :
        /\ instruction' = i
        /\ parsed' = parseRepoContext(i)
        /\ UNCHANGED <<agent, isProcessing, currentProcess, currentTask, taskStatus, exec, nInstr,
                       conversationHistory, repoContext, pendingApprovals, approval, timeoutId,
                       resolveCalls, settled, nextApprovalId, timedOutNotes, responses, last,
                       input, pos, reader, response, detections, http, textVars>>

\* if (context) applyContext(context)
Apply ==
    /\ parsed # NullContext
    /\ repoContext' = applyContext(Cur, parsed).repoContext
    /\ UNCHANGED <<agent, isProcessing, currentProcess, currentTask, taskStatus, exec, nInstr,
                   conversationHistory, pendingApprovals, approval, timeoutId,
                   resolveCalls, settled, nextApprovalId, timedOutNotes, responses, last,
                   input, pos, reader, response, detections, parserVars, http, textVars>>

ParseInit == Init /\ agent = "claude"

ParseNext == Parse \/ Apply

ParseSpec == ParseInit /\ [][ParseNext]_vars

\* ------------------------------------------------ extractTaskDescription
\* A text is a sequence of runs [c, n]: n times the character c, which is a
\* letter ("a"), a blank (" ") or a sentence terminator (".").
MaxRuns == 3             \* runs of one instruction
DescriptionLimit == 100
TruncateAt == 97

RunLengths == {1, 2, 96, 98, 100}

Runs == [c : {"a", " ", "."}, n : RunLengths]

Texts == UNION {[1..k -> Runs] : k \in 0..MaxRuns}

Ellipsis == <<[c |-> ".", n |-> 3]>>

RECURSIVE length(_)
length(s) == IF s = <<>> THEN 0 ELSE Head(s).n + length(Tail(s))

\* s.substring(0, k)
RECURSIVE substring(_, _)
substring(s, k) ==
    IF s = <<>> \/ k = 0 THEN <<>>
    ELSE IF Head(s).n <= k THEN <<Head(s)>> \o substring(Tail(s), k - Head(s).n)
    ELSE <<[c |-> Head(s).c, n |-> k]>>

RECURSIVE trimStart(_)
trimStart(s) == IF s # <<>> /\ Head(s).c = " " THEN trimStart(Tail(s)) ELSE s

RECURSIVE trimEnd(_)
trimEnd(s) ==
    IF s # <<>> /\ s[Len(s)].c = " " THEN trimEnd(SubSeq(s, 1, Len(s) - 1)) ELSE s

trim(s) == trimEnd(trimStart(s))

\* s.split(/[.!?]/)[0]
RECURSIVE firstPiece(_)
firstPiece(s) ==
    IF s = <<>> \/ Head(s).c = "." THEN <<>> ELSE <<Head(s)>> \o firstPiece(Tail(s))

\* IntentParser.extractTask for a text that holds no context phrase and no
\* leading conjunction: nothing is removed, the text is trimmed.
extractTask(text) == trim(IF trim(text) = <<>> THEN text ELSE trim(text))

\* extractTaskDescription variant: the cut is made at the limit itself.
extractTaskDescription_CutAtLimit(text) ==
    LET firstSentence == firstPiece(extractTask(text))
    IN IF length(firstSentence) <= DescriptionLimit
       THEN trim(firstSentence)
       ELSE trim(substring(extractTask(text), DescriptionLimit)) \o Ellipsis

extractTaskDescription(text) ==
    LET firstSentence == firstPiece(extractTask(text))
    IN IF length(firstSentence) <= DescriptionLimit
       THEN trim(firstSentence)
       ELSE trim(substring(extractTask(text), TruncateAt)) \o Ellipsis

\* processInstruction derives the Task description from the instruction.
Describe ==
    /\ ~description.ran
    /\ description' = [ran |-> TRUE, text |-> extractTaskDescription(task)]
    /\ UNCHANGED <<agent, isProcessing, currentProcess, currentTask, taskStatus, exec, nInstr,
                   conversationHistory, repoContext, pendingApprovals, approval, timeoutId,
                   resolveCalls, settled, nextApprovalId, timedOutNotes, responses, last,
                   input, pos, reader, response, detections, parserVars, http, task, summary>>

TextInit ==
    /\ SessionInit
    /\ agent = "claude"
    /\ ReaderIdle
    /\ DetectorIdle
    /\ ParserIdle
    /\ ServerIdle
    /\ task \in Texts
    /\ description = NotDescribed

TextNext == Describe

TextSpec == TextInit /\ [][TextNext]_vars

\* ------------------------------------------------------ summarizeResponse
MaxSummaryLines == 4     \* lines of one response text

\* Sample lines of a response as their words; <<>> is a blank line.
SummaryLines ==
    {<<>>,
     <<"Running", "tests">>,
     <<"All", "done.">>,
     <<"File", "created">>,
     <<"Tests", "COMPLETED">>}

SummaryResponses == UNION {[1..k -> SummaryLines] : k \in 0..MaxSummaryLines}

successIndicators ==
    {"created", "added", "updated", "committed", "pushed", "installed", "completed", "done",
     "success", "finished"}

toLowerCase(word) ==
    IF word = "COMPLETED" THEN "completed"
    ELSE IF word = "Running" THEN "running"
    ELSE IF word = "All" THEN "all"
    ELSE IF word = "File" THEN "file"
    ELSE IF word = "Tests" THEN "tests"
    ELSE word

\* lower.includes(ind), for the lower-cased sample words
includes(word, ind) == word = ind \/ (word = "done." /\ ind = "done")

indicates(line) ==
    \E i \in 1..Len(line), ind \in successIndicators : includes(toLowerCase(line[i]), ind)

\* list.slice(0, n) and list.slice(-n)
sliceFirst(list, n) == SubSeq(list, 1, Min({n, Len(list)}))

sliceLast(list, n) == SubSeq(list, Len(list) - Min({n, Len(list)}) + 1, Len(list))

Fallback == <<<<"Task", "completed", "successfully.">>>>

\* summarizeResponse variant: the last three matching lines are returned.
summarizeResponse_LastMatches(lines) ==
    LET nonBlank == SelectSeq(lines, LAMBDA l : l # <<>>)
        relevantLines == SelectSeq(nonBlank, indicates)
    IN IF Len(relevantLines) > 0 THEN sliceLast(relevantLines, 3)
       ELSE IF Len(nonBlank) > 0 THEN sliceLast(nonBlank, 3)
       ELSE Fallback

\* summarizeResponse: the text returned, as its lines.
summarizeResponse(lines) ==
    LET nonBlank == SelectSeq(lines, LAMBDA l : l # <<>>)
        relevantLines == SelectSeq(nonBlank, indicates)
    IN IF Len(relevantLines) > 0 THEN sliceFirst(relevantLines, 3)
       ELSE IF Len(nonBlank) > 0 THEN sliceLast(nonBlank, 3)
       ELSE Fallback

\* The TASK_COMPLETE message is built from the full response.
Summarize ==
    /\ ~summary.ran
    /\ summary' = [ran |-> TRUE, text |-> summarizeResponse(response)]
    /\ UNCHANGED <<agent, isProcessing, currentProcess, currentTask, taskStatus, exec, nInstr,
                   conversationHistory, repoContext, pendingApprovals, approval, timeoutId,
                   resolveCalls, settled, nextApprovalId, timedOutNotes, responses, last,
                   input, pos, reader, response, detections, parserVars, http, task,
                   description>>

SummaryInit ==
    /\ SessionInit
    /\ agent = "claude"
    /\ ReaderIdle
    /\ response \in SummaryResponses
    /\ detections = NotDetected
    /\ summary = NotSummarized
    /\ ParserIdle
    /\ ServerIdle
    /\ TextIdle

SummaryNext == Summarize

SummarySpec == SummaryInit /\ [][SummaryNext]_vars

\* ------------------------------------------------------------ properties
gateVars == <<pendingApprovals, approval, timeoutId, resolveCalls, settled, nextApprovalId,
              timedOutNotes, responses>>

sessionVars == <<agent, isProcessing, currentProcess, currentTask, taskStatus, exec, nInstr,
                 conversationHistory, repoContext>>

Issued(id) == id < nextApprovalId
Removed(id) == Issued(id) /\ id \notin pendingApprovals

\* C1: the resolution callback of every approval is invoked exactly once, by
\* whichever of handleResponse, the timeout, cancelAllForUser and clearAll comes
\* first: never while the record is pending, once when it is removed, and never
\* a second time afterwards.
C1_SettledExactlyOnce ==
    \A id \in ApprovalIds :
        /\ resolveCalls[id] = IF Removed(id) THEN 1 ELSE 0
        /\ (settled[id] # "unsettled") = Removed(id)

\* Two approvals, one settled by its timeout and one by a response or a cancel.
C1_Witness ==
    \E i, j \in ApprovalIds :
        /\ timeoutId[i] = "fired" /\ resolveCalls[i] = 1
        /\ timeoutId[j] = "cleared" /\ resolveCalls[j] = 1

\* C2: handleResponse returns true at most once per approval id; a call that
\* returns true removes the record, a removed record never comes back, and a
\* call for a removed id returns false and leaves the gate unchanged.
C2_ResponseAtMostOnce ==
    /\ [](\A id \in ApprovalIds : responses[id] <= 1)
    /\ [][/\ \A id \in ApprovalIds : Removed(id) => Removed(id)'
          /\ \A id \in ApprovalIds, approved \in {"true", "false"}, userId \in Users :
                HandleResponseStep(id, approved, userId) =>
                    /\ last'.ret = "true" => (id \in pendingApprovals /\ Removed(id)')
                    /\ Removed(id) => (last'.ret = "false" /\ UNCHANGED gateVars)]_vars

\* A second response for an id whose first response was accepted has just
\* returned false.
C2_Witness ==
    /\ last.id \in ApprovalIds
    /\ responses[last.id] = 1
    /\ last.ret = "false"

MatchingResponse(id, userId) == id \in pendingApprovals /\ approval[id].userId = userId

\* C3: handleResponse fails closed: for an unknown id or a responder who is not
\* the requester it returns false, emits no event and changes nothing (the record
\* stays pending, its timer armed, its result unsettled).
C3_FailsClosed ==
    [][\A id \in ApprovalIds, approved \in {"true", "false"}, userId \in Users :
          (HandleResponseStep(id, approved, userId) /\ ~MatchingResponse(id, userId)) =>
              /\ last'.ret = "false"
              /\ last'.emitted = <<>>
              /\ UNCHANGED gateVars
              /\ UNCHANGED sessionVars]_vars

\* A response by the wrong user has just returned false and the record is
\* still pending with its timer armed.
C3_Witness ==
    /\ last.id \in pendingApprovals
    /\ last.ret = "false"
    /\ timeoutId[last.id] = "armed"
    /\ settled[last.id] = "unsettled"

TimedOutEvent(id) ==
    [src |-> "gate", type |-> "ERROR", user |-> approval[id].userId, msg |-> "timed out",
     approvalId |-> id]

Terminal(status) == status \in {"completed", "failed"}

\* C5: a session admits at most one in-flight Task: there is never more than
\* one accepted instruction whose execution (subprocess or approval sequence)
\* is still in progress.
C5_AtMostOneInFlight == Cardinality({e \in Execs : InProgress(exec[e])}) <= 1

BusyEvent ==
    [src |-> "session", type |-> "ERROR", user |-> SessionUser, msg |-> "busy", approvalId |-> 0]

\* C6: a Task is running only while the processing lock is held, and an
\* instruction submitted then is rejected with one ERROR event and no change of
\* state: the Task, the conversation history, the repository/branch context and
\* the lock are unchanged and no subprocess or agent call is started.
C6_BusyRejected ==
    /\ []((currentTask # 0 /\ taskStatus[currentTask] = "running") => isProcessing)
    /\ [][\A context \in ParsedContexts, thr \in BOOLEAN :
            (isProcessing /\ SubmitStep(SessionUser, context, thr)) =>
                /\ last'.emitted = <<BusyEvent>>
                /\ UNCHANGED sessionVars
                /\ UNCHANGED gateVars]_vars

\* An instruction has just been rejected while the Task of the accepted one was
\* running.
C6_Witness ==
    /\ last.emitted = <<BusyEvent>>
    /\ currentTask # 0
    /\ taskStatus[currentTask] = "running"
    /\ conversationHistory # <<>>

\* C7: the only Task status transitions are running to completed and running
\* to failed; a status that is completed or failed never changes again.
C7_TerminalIsFinal ==
    [][\A k \in Execs : Terminal(taskStatus[k]) => taskStatus'[k] = taskStatus[k]]_vars

\* C8: whenever processInstruction returns after having started a Task, that
\* Task's status is completed or failed.
C8_ReturnedNotRunning ==
    \A e \in Execs : exec[e].phase = "returned" => Terminal(taskStatus[e])

\* processInstruction has returned after a thrown exception, and again after
\* the agent's work ended.
C8_Witness ==
    \E e, f \in Execs :
        /\ exec[e].phase = "returned" /\ exec[e].proc = "none" /\ taskStatus[e] = "failed"
        /\ exec[f].phase = "returned" /\ taskStatus[f] = "completed"

\* C9: the processing lock is always released: it is held only while an
\* accepted instruction still waits for its subprocess to exit, for the agent
\* call to return or for an approval to be settled.
C9_LockReleased == isProcessing => \E e \in Execs : InProgress(exec[e])

ErrorEvent(e, msg) ==
    [src |-> "session", type |-> "ERROR", user |-> exec[e].user, msg |-> msg, approvalId |-> 0]

Emitted(s, msg) == \E i \in 1..Len(s.emitted) : s.emitted[i].msg = msg

\* C10: on subprocess exit a latched truncation reason takes priority over the
\* exit code: the Task is marked failed and the one ERROR emitted carries exactly
\* the latched truncation message, whatever the exit code; the generic exit-code
\* error is emitted exactly when nothing was latched and the exit code is
\* neither zero nor null.
C10_TruncationFirst ==
    [][\A e \in Execs, code \in ExitCodes \cup {SpawnErrno}, thr \in BOOLEAN :
          ProcCloseStep(e, code, thr) =>
              /\ exec[e].trunc # 0 =>
                    /\ last'.emitted = <<ErrorEvent(e, TruncMessage(exec[e].trunc))>>
                    /\ currentTask # 0 => taskStatus'[currentTask] = "failed"
              /\ Emitted(last', "exit code") <=> (exec[e].trunc = 0 /\ code \notin {"0", "null"})
              /\ Emitted(last', "exit code") =>
                    /\ last'.emitted[1] = ErrorEvent(e, "exit code")
                    /\ currentTask # 0 => taskStatus'[currentTask] = "failed"]_vars

\* The subprocess has just exited with a non-zero code after a truncation was
\* latched, and the truncation message is what was emitted.
C10_Witness ==
    /\ last.code = "1"
    /\ \E p \in 1..Len(truncationPatterns) : Emitted(last, TruncMessage(p))
    /\ currentTask # 0
    /\ taskStatus[currentTask] = "failed"

SessionErrors(s) ==
    {i \in 1..Len(s.emitted) : s.emitted[i].src = "session" /\ s.emitted[i].type = "ERROR"}

\* C11: every failure of an accepted instruction is converted to a single
\* ERROR update event: the handling of a subprocess exit, with everything it
\* makes processInstruction do, emits at most one ERROR event.
C11_SingleError == last.code # "-" => Cardinality(SessionErrors(last)) <= 1

SessionPending == {i \in pendingApprovals : approval[i].waiter # 0}

\* C12: detected actions are approved strictly one after the other, so a
\* session never has more than one of its own approvals pending in the gate.
C12_OnePendingPerSession == Cardinality(SessionPending) <= 1

\* C13: cancelCurrentTask issued while a Task is in flight releases the
\* processing lock, marks the Task failed and cancels every approval still
\* pending for the session, in every phase of the Task.
C13_CancelCancelsApprovals ==
    [][(Cancel /\ currentProcess # 0) =>
          /\ ~isProcessing'
          /\ taskStatus'[currentTask] = "failed"
          /\ SessionPending' = {}
          /\ \A i \in SessionPending : settled'[i] = "false"]_vars

SettledFalseStep(id) ==
    \/ TimeoutStep(id)
    \/ HandleResponseStep(id, "false", approval[id].userId)

Untouched(id) ==
    /\ (id \in pendingApprovals') = (id \in pendingApprovals)
    /\ timeoutId'[id] = timeoutId[id]
    /\ settled'[id] = settled[id]
    /\ resolveCalls'[id] = resolveCalls[id]

Cancelled(id) ==
    /\ id \notin pendingApprovals'
    /\ timeoutId'[id] = "cleared"
    /\ settled'[id] = "false"
    /\ resolveCalls'[id] = 1

\* C15: cancelAllForUser(u) settles every pending approval requested by u to
\* false, cancels its timer and removes it, and leaves every other approval
\* untouched; clearAll does the same for every pending approval and leaves the
\* pending set empty. Neither emits an event.
C15_BulkCancelFrame ==
    /\ [][\A userId \in Users :
            CancelAllForUserStep(userId) =>
                /\ \A id \in ApprovalIds :
                      IF id \in pendingApprovals /\ approval[id].userId = userId
                      THEN Cancelled(id) ELSE Untouched(id)
                /\ last'.emitted = <<>>
                /\ UNCHANGED <<approval, nextApprovalId, timedOutNotes, responses>>]_vars
    /\ [][ClearAll =>
            /\ pendingApprovals' = {}
            /\ \A id \in ApprovalIds :
                  IF id \in pendingApprovals THEN Cancelled(id) ELSE Untouched(id)
            /\ last'.emitted = <<>>
            /\ UNCHANGED <<approval, nextApprovalId, timedOutNotes, responses>>]_vars

\* An approval was cancelled for its user while an older approval of another
\* user stayed pending with its timer armed.
C15_Witness ==
    \E i, j \in ApprovalIds :
        /\ j < i
        /\ approval[j].userId # approval[i].userId
        /\ j \in pendingApprovals /\ timeoutId[j] = "armed" /\ settled[j] = "unsettled"
        /\ timeoutId[i] = "cleared" /\ responses[i] = 0 /\ settled[i] = "false"

Verdict(r) == [text |-> r.fullResponse, truncation |-> r.truncationError]

\* C16: an output stream cut into chunks at arbitrary boundaries yields the
\* same reassembled response text, the same truncation verdict and the same
\* number of limit warnings as the stream delivered in one chunk.
C16_ChunkingInvariant ==
    (reader.closed /\ ~reader.stderr) =>
        /\ Verdict(reader) = Verdict(OneChunk(input))
        /\ reader.warnings = OneChunk(input).warnings

NoFinalNewline(stream) == stream # <<>> /\ stream[Len(stream)] # "n"

\* C17: a stream whose final record arrives without a trailing newline yields
\* the same reassembled text and the same truncation verdict as the same stream
\* with the trailing newline present.
C17_FinalFragmentAsLine ==
    (reader.closed /\ ~reader.stderr /\ NoFinalNewline(input)) =>
        Verdict(reader) = Verdict(OneChunk(input \o <<"n">>))

\* C18: once a truncation reason has been set it never changes for the rest of
\* the execution, whatever later stdout lines, stderr chunks or the final
\* fragment match.
C18_TruncationLatches ==
    [][reader.truncationError # 0 => reader'.truncationError = reader.truncationError]_vars

\* The reason of the stop_reason pattern stayed latched to the close although
\* the output also says "response truncated" and a stderr chunk was handled.
C18_Witness ==
    /\ reader.closed
    /\ reader.stderr
    /\ reader.truncationError = 3
    /\ \E i \in 1..Len(input) : input[i] = "t"

Estimate(r) ==
    LET ceil == (r.totalChars + averageCharsPerToken - 1) \div averageCharsPerToken
    IN IF ceil >= r.totalWords THEN ceil ELSE r.totalWords

\* C19: the output-limit warning is emitted at most once per execution: it has
\* been emitted exactly when max(ceil(totalChars / 4), totalWords) has reached
\* tokenLimit * tokenWarningRatio, and never while the estimate is below it.
C19_WarningOnce ==
    reader.warnings =
        IF Estimate(reader) * tokenWarningRatioDen >= TokenLimit * tokenWarningRatioNum
        THEN 1 ELSE 0

\* The warning was emitted once although text was tracked again after the
\* estimate had reached the threshold.
C19_Witness ==
    /\ reader.closed
    /\ reader.warnings = 1
    /\ reader.totalWords >= 2 * TokenLimit

NoSharedPair(list) ==
    \A i, j \in 1..Len(list) : ActionKey(list[i]) = ActionKey(list[j]) => i = j

\* C20: detectInResponse never returns two entries sharing the same
\* (category, action label) pair for one response, even if the triggering
\* command appears on several lines.
C20_NoDuplicatePairs ==
    detections.ran => (NoSharedPair(detections.plain) /\ NoSharedPair(detections.dedup))

ForcePush == <<"git", "push", "origin", "main", "--force">>

\* The response holds the force push once and no other line that names git.
OnlyForcePush(lines) ==
    /\ Cardinality({i \in 1..Len(lines) : lines[i] = ForcePush}) = 1
    /\ \A i \in 1..Len(lines) : lines[i] # ForcePush => ~Contains(lines[i], "git")

InCategory(list, category) == SelectSeq(list, LAMBDA d : d.category = category)

Parts(d) == {d.details[i] : i \in 1..Len(d.details)}

ForcePushEntry(list) ==
    /\ Len(InCategory(list, "git")) = 1
    /\ InCategory(list, "git")[1].command = ForcePush
    /\ InCategory(list, "git")[1].isSensitive
    /\ <<"Branch", "main">> \in Parts(InCategory(list, "git")[1])
    /\ <<"Force flag enabled", "">> \in Parts(InCategory(list, "git")[1])

\* C21: a response whose only version-control line is `git push origin main
\* --force` yields exactly one detection of category git, of high severity,
\* whose details hold the branch name main and the force-flag marker.
C21_ForcePushScenario ==
    (detections.ran /\ OnlyForcePush(response)) =>
        (ForcePushEntry(detections.plain) /\ ForcePushEntry(detections.dedup))

\* The force push was detected in a response of three lines.
C21_Witness ==
    /\ detections.ran
    /\ OnlyForcePush(response)
    /\ Len(response) = MaxResponseLines
    /\ Len(detections.dedup) = 2

\* The lines the severity rule names: a destructive flag, a protected branch
\* name, a package publish or an infrastructure apply.
NamedHigh(line) ==
    \/ Contains(line, "--force") \/ Contains(line, "--hard")
    \/ Contains(line, "main")
    \/ Adjacent(line, "npm", "publish") \/ Adjacent(line, "yarn", "publish")
    \/ Adjacent(line, "kubectl", "apply") \/ Adjacent(line, "terraform", "apply")

AllHigh(list) == \A i \in 1..Len(list) : NamedHigh(list[i].command) => list[i].isSensitive

\* C26: severity is high for every detected line that contains a destructive
\* flag, targets a protected branch name, or is a package publish or an
\* infrastructure apply.
C26_SeverityHigh == detections.ran => (AllHigh(detections.plain) /\ AllHigh(detections.dedup))

Kubectl == <<"kubectl", "apply", "-f", "deploy.yml">>

SkipsProse(list) ==
    /\ \A i \in 1..Len(list) : ~Skipped(list[i].command)
    /\ (\E i \in 1..Len(response) : response[i] = Kubectl) =>
          \E i \in 1..Len(list) : list[i].category = "deploy" /\ list[i].command = Kubectl

\* C27: detectInResponse passes over comment lines, markdown bullet, quote and
\* numbered-list lines and lines that name a .yml/.yaml/.json file without
\* starting with a command word, while `kubectl apply -f deploy.yml` yields a
\* deployment detection.
C27_SkipsProse == detections.ran => (SkipsProse(detections.plain) /\ SkipsProse(detections.dedup))

BranchOnly == {<<"switch", "to", "branch", "feature-x">>, <<"on", "the", "branch", "dev", "add", "tests">>}

CreateDemo == <<"create", "a", "new", "repo", "called", "demo">>

\* C22: a branch-only instruction resolves to a context with a branch and no
\* repository, and applying it changes only the current branch, the current
\* org and repo staying as they were; "create a new repo called demo" resolves
\* to a different context, with action create and repo demo.
C22_BranchOnlyContext ==
    [][/\ (instruction' \in BranchOnly) =>
            (parsed'.branch # "" /\ parsed'.repo = "" /\ parsed'.org = "")
       /\ (instruction' = CreateDemo) =>
            (/\ parsed' = [org |-> "", repo |-> "demo", branch |-> "", action |-> "create"]
             /\ \A i \in BranchOnly : parseRepoContext(i) # parsed')
       /\ (instruction \in BranchOnly /\ repoContext' # repoContext) =>
            (/\ repoContext'.branch = parsed.branch
             /\ repoContext'.org = repoContext.org
             /\ repoContext'.repo = repoContext.repo)]_vars

\* A branch-only context was applied in a session that had an org and a repo.
C22_Witness ==
    /\ instruction = <<"switch", "to", "branch", "feature-x">>
    /\ repoContext = [org |-> "acme", repo |-> "demo", branch |-> "feature-x"]

GateNotice(update) ==
    /\ update.src = "gate"
    /\ update.type = "APPROVAL_REQUIRED" \/ update.msg = "timed out"

Broadcast(update) == \E j \in 1..Len(broadcastUpdate(last)) : broadcastUpdate(last)[j] = update

\* C23: every approval-required event and every timed-out notification the
\* gate emits is broadcast to the subscribers of the session's update feed.
C23_GateEventsBroadcast ==
    \A i \in 1..Len(last.emitted) : GateNotice(last.emitted[i]) => Broadcast(last.emitted[i])

\* C24: requestApproval stores the record before it emits the event: a
\* handleResponse called by a subscriber as it receives the event, for the same
\* user, returns true and settles the result with the answer given.
C24_StoredBeforeEmit ==
    [][\A userId \in Users, approved \in {"true", "false"} :
          AnswerOnEventStep(userId, approved) =>
              (last'.ret = "true" /\ settled'[nextApprovalId] = approved)]_vars

FirstSentence == firstPiece(extractTask(task))

NonBlankAt == {i \in 1..Len(response) : response[i] # <<>>}

KeywordAt == {i \in NonBlankAt : indicates(response[i])}

\* The lines of the response at the positions S, in their order.
RECURSIVE LinesAt(_)
LinesAt(S) ==
    IF S = {} THEN <<>>
    ELSE LET i == CHOOSE x \in S : \A y \in S : x <= y
         IN <<response[i]>> \o LinesAt(S \ {i})

Lowest(S, n) == {i \in S : Cardinality({j \in S : j < i}) < n}

Highest(S, n) == {i \in S : Cardinality({j \in S : j > i}) < n}

\* C29: the summary is the first up to three non-blank lines that hold a
\* completion keyword, in their order, when there is one; otherwise the last up
\* to three non-blank lines, in order; otherwise the fixed fallback text.
C29_SummaryChoice ==
    summary.ran =>
        summary.text = IF KeywordAt # {} THEN LinesAt(Lowest(KeywordAt, 3))
                       ELSE IF NonBlankAt # {} THEN LinesAt(Highest(NonBlankAt, 3))
                       ELSE Fallback

\* Four lines hold a keyword and the first three were returned.
C29_Witness ==
    /\ summary.ran
    /\ Cardinality(KeywordAt) = 4
    /\ Len(summary.text) = 3
    /\ response[4] # response[1]

\* C30: the close event of an earlier execution, one that was cancelled and
\* then superseded by a new instruction, changes neither the status of the
\* later Task nor the later instruction's processing lock or subprocess handle.
C30_OnlyOwnExecution ==
    [][\A e \in Execs, code \in ExitCodes \cup {SpawnErrno}, thr \in BOOLEAN :
          (ProcCloseStep(e, code, thr) /\ e < nInstr /\ InProgress(exec[nInstr])) =>
              /\ taskStatus'[nInstr] = taskStatus[nInstr]
              /\ isProcessing' = isProcessing
              /\ currentProcess' = currentProcess]_vars

SentIn(log) == {i \in 1..Len(log) : log[i] \in Sent}

\* C25: every instruction is acknowledged with an accepted response before
\* processInstruction is invoked, also when it is then rejected as busy, and no
\* second response is sent for the same request.
C25_AcknowledgedFirst ==
    /\ [](http # NoRequest =>
            (http[1] = "accepted" /\ http[2] = "processInstruction" /\ SentIn(http) = {1}))
    /\ [][\A context \in ParsedContexts, thr \in BOOLEAN, thrBusy \in BOOLEAN :
            (isProcessing /\ PostStep(context, thr, thrBusy)) =>
                (http'[1] = "accepted" /\ BusyEvent \in {last'.emitted[i] : i \in 1..Len(last'.emitted)})]_vars

\* A busy instruction was acknowledged, and the later error response refused.
C25_Witness ==
    /\ http = <<"accepted", "processInstruction", "ERR_HTTP_HEADERS_SENT">>
    /\ last.emitted = <<BusyEvent>>
    /\ isProcessing

Types(s) == {s.emitted[i].type : i \in 1..Len(s.emitted)}

\* C31: a subprocess that ends with a null exit code and no latched truncation
\* is handled as a clean exit: no ERROR is emitted, the first detected action
\* is sent for approval and, once no detection is left, completeTask is called
\* and TASK_COMPLETE is emitted.
C31_NullExitIsClean ==
    [][\A e \in Execs, thr \in BOOLEAN :
          (ProcCloseStep(e, "null", thr) /\ exec[e].trunc = 0) =>
              /\ "ERROR" \notin Types(last')
              /\ exec[e].dets > 0 =>
                    /\ pendingApprovals' = pendingApprovals \cup {nextApprovalId}
                    /\ approval'[nextApprovalId].waiter = e
                    /\ "APPROVAL_REQUIRED" \in Types(last')
              /\ exec[e].dets = 0 =>
                    /\ "TASK_COMPLETE" \in Types(last')
                    /\ taskStatus'[currentTask] = "completed"]_vars

\* A cancelled subprocess ended with a null code and the Task was completed.
C31_Witness ==
    /\ last.code = "null"
    /\ "TASK_COMPLETE" \in Types(last)
    /\ taskStatus[currentTask] = "completed"
    /\ ~isProcessing
    /\ exec[currentTask].phase = "inflight"

NoApprovalRequested ==
    /\ pendingApprovals' \subseteq pendingApprovals
    /\ nextApprovalId' = nextApprovalId
    /\ "APPROVAL_REQUIRED" \notin Types(last')

\* C32: approvals are requested only for executions that ended cleanly: the
\* handling of an exit with a latched truncation or a non-zero code, of a spawn
\* error or of a failed agent call requests no approval, and every approval a
\* session ever requested belongs to an execution that ended without a
\* latched truncation.
C32_ApprovalsOnlyAfterCleanExit ==
    /\ [](\A i \in ApprovalIds :
            approval[i].waiter # 0 =>
                /\ exec[approval[i].waiter].trunc = 0
                /\ exec[approval[i].waiter].proc \notin {"alive", "errored"})
    /\ [][/\ \A e \in Execs, code \in ExitCodes \cup {SpawnErrno}, thr \in BOOLEAN :
               (ProcCloseStep(e, code, thr) /\ (exec[e].trunc # 0 \/ code \notin {"0", "null"}))
                   => NoApprovalRequested
          /\ (ProcError \/ AgentFail) => NoApprovalRequested]_vars

\* An execution whose output held sensitive commands ended with a latched
\* truncation and exit code 0.
C32_Witness ==
    /\ last.code = "0"
    /\ \E p \in 1..Len(truncationPatterns) : Emitted(last, TruncMessage(p))
    /\ \E e \in Execs : exec[e].proc = "closed" /\ exec[e].dets = MaxDetect /\ exec[e].trunc # 0
    /\ pendingApprovals = {}

\* The TASK_COMPLETE and ERROR events of the session among the events of one
\* handler run, the busy rejection (no instruction accepted) aside.
TerminalEvents(s) ==
    {i \in 1..Len(s.emitted) :
        /\ s.emitted[i].src = "session"
        /\ s.emitted[i].type \in {"TASK_COMPLETE", "ERROR"}
        /\ s.emitted[i].msg # "busy"}

\* C33: an accepted instruction gets exactly one terminal event, TASK_COMPLETE
\* or ERROR: a handler run emits at most one of them, the session emits
\* nothing after it in that run, and the Task is completed when it is
\* TASK_COMPLETE and failed when it is ERROR.
C33_OneTerminalEvent ==
    LET T == TerminalEvents(last)
    IN /\ Cardinality(T) <= 1
       /\ \A i \in T :
            /\ \A j \in (i + 1)..Len(last.emitted) : last.emitted[j].src # "session"
            /\ currentTask # 0 =>
                 /\ last.emitted[i].type = "TASK_COMPLETE" => taskStatus[currentTask] = "completed"
                 /\ last.emitted[i].type = "ERROR" => taskStatus[currentTask] = "failed"

\* C34: in every state of the gate each pending record is unsettled and has
\* its timeout armed, and an armed timeout belongs to a pending record; so the
\* timeout callback only ever runs for a pending approval, never for one that
\* handleResponse, cancelAllForUser or clearAll removed.
C34_PendingIffArmed ==
    /\ [](\A id \in ApprovalIds :
            /\ id \in pendingApprovals => (settled[id] = "unsettled" /\ resolveCalls[id] = 0)
            /\ (id \in pendingApprovals) = (timeoutId[id] = "armed"))
    /\ [][\A id \in ApprovalIds :
            TimeoutStep(id) => (id \in pendingApprovals /\ ~Removed(id) /\ responses[id] = 0)]_vars

\* One approval is pending with its timer armed, one was removed by a response
\* or a cancel, and the timer of a third has fired.
C34_Witness ==
    \E i, j, k \in ApprovalIds :
        /\ i \in pendingApprovals /\ timeoutId[i] = "armed" /\ settled[i] = "unsettled"
        /\ j \notin pendingApprovals /\ timeoutId[j] = "cleared"
        /\ k \notin pendingApprovals /\ timeoutId[k] = "fired"

C36_StderrTruncationFails ==
    [][\A e \in Execs :
          /\ \A marks \in TextSamples \ {{}} :
                (/\ exec[e].proc = "alive"
                 /\ exec[e].trunc = 0
                 /\ Set(stderrData(Begin(0, "-"), e, marks))) => exec'[e].trunc = Min(marks)
          /\ exec[e].trunc # 0 => exec'[e].trunc = exec[e].trunc
          /\ \A thr \in BOOLEAN :
                (ProcCloseStep(e, "0", thr) /\ exec[e].trunc # 0) =>
                    /\ ErrorEvent(e, TruncMessage(exec[e].trunc)) = last'.emitted[1]
                    /\ "TASK_COMPLETE" \notin Types(last')
                    /\ currentTask # 0 => taskStatus'[currentTask] = "failed"]_vars

\* The subprocess wrote nothing to stdout, the first pattern was seen on
\* stderr, and the exit with code 0 has just failed the Task.
C36_Witness ==
    /\ last.code = "0"
    /\ Emitted(last, TruncMessage(1))
    /\ currentTask # 0
    /\ exec[currentTask].proc = "closed"
    /\ exec[currentTask].trunc = 1
    /\ ~exec[currentTask].resp
    /\ exec[currentTask].dets = 0
    /\ taskStatus[currentTask] = "failed"

IsPrefix(h, g) == Len(h) <= Len(g) /\ SubSeq(g, 1, Len(h)) = h

\* C37: the conversation history only grows; an accepted instruction appends
\* exactly one user entry and a busy-rejected one none; an assistant entry is
\* appended only as the Task of the instruction that produced the response
\* completes with a non-empty response, so the handling of an exit that leaves
\* that Task failed appends nothing.
C37_HistoryGrowth ==
    [][/\ IsPrefix(conversationHistory, conversationHistory')
       /\ \A context \in ParsedContexts :
             SubmitStep(SessionUser, context, FALSE) =>
                 conversationHistory' =
                     IF isProcessing THEN conversationHistory
                     ELSE Append(conversationHistory, "user")
       /\ \A e \in Execs, code \in ExitCodes \cup {SpawnErrno}, thr \in BOOLEAN :
             (ProcCloseStep(e, code, thr) /\ conversationHistory' # conversationHistory) =>
                 /\ conversationHistory' = Append(conversationHistory, "assistant")
                 /\ exec[e].resp
                 /\ taskStatus'[e] = "completed"]_vars

PlainPush == <<"git", "push", "origin", "main">>

IsGitPush(line) == Adjacent(line, "git", "push")

PushLabelled(list) ==
    \A i \in 1..Len(list) :
        /\ list[i].action # "Force push (destructive)"
        /\ IsGitPush(list[i].command) =>
              (list[i].category = "git" /\ list[i].action = "Push to remote repository")

\* The git push lines of the response that the deduplicating copy reads.
PushLines == {i \in 1..Len(response) : IsGitPush(response[i]) /\ ~Skipped(response[i])}

\* C38: a detected git push line is labelled 'Push to remote repository' with
\* or without --force, and 'Force push (destructive)' is never produced; so
\* with deduplication by (category, label) the git push lines of a response
\* yield one detection, that of the first of them: a plain push followed by a
\* force push yields the detection of the plain push only.
C38_PushLabel ==
    detections.ran =>
        /\ PushLabelled(detections.plain)
        /\ PushLabelled(detections.dedup)
        /\ LET pushes == SelectSeq(detections.dedup, LAMBDA d : IsGitPush(d.command))
           IN IF PushLines = {} THEN pushes = <<>>
              ELSE /\ Len(pushes) = 1
                   /\ pushes[1].command = response[Min(PushLines)]

\* A plain push followed by a force push: one detection with deduplication,
\* two with the same label without it.
C38_Witness ==
    /\ detections.ran
    /\ Len(response) = 2
    /\ response[1] = PlainPush
    /\ response[2] = ForcePush
    /\ Len(detections.dedup) = 1
    /\ detections.dedup[1].command = PlainPush
    /\ Len(detections.plain) = 2
    /\ detections.plain[2].action = "Push to remote repository"

\* C39: cancelCurrentTask is a no-op when no subprocess handle is set: the
\* processing lock, every Task status and the rest of the session and of the
\* gate are left as they were, and no event is emitted.
C39_CancelWithoutHandle ==
    [][(Cancel /\ currentProcess = 0) =>
          /\ isProcessing' = isProcessing
          /\ taskStatus' = taskStatus
          /\ UNCHANGED sessionVars
          /\ UNCHANGED gateVars
          /\ last'.emitted = <<>>]_vars

\* The close of a cancelled execution has cleared the handle and completed the
\* Task of the next instruction, whose subprocess, silent so far, is still
\* running, and the call that ran last did nothing.
C39_Witness ==
    /\ agent = "claude"
    /\ currentProcess = 0
    /\ ~isProcessing
    /\ last = NoCall
    /\ \E e \in Execs :
          /\ exec[e].phase = "inflight" /\ exec[e].proc = "alive"
          /\ ~exec[e].resp /\ exec[e].dets = 0 /\ exec[e].trunc = 0
          /\ currentTask = e
          /\ taskStatus[e] = "completed"
          /\ \E d \in Execs : d < e /\ exec[d].proc = "closed"

====
